---- MODULE Spec2Model ----
(***************************************************************************)
(* A model of IsochroneGenerator (src/isochrone_generator.py): the speed   *)
(* annotation parser, the time-annotation pass over the road network, the  *)
(* time-bounded reachability step (networkx ego_graph over the 'time'      *)
(* weight), and the route extraction that follows it.                      *)
(*                                                                         *)
(* Conventions of the model                                                *)
(*  - a Python str is a sequence of one-character strings, so that lower,  *)
(*    strip, split, the substring test and int() are computed and not      *)
(*    assumed;                                                             *)
(*  - a speed is an integer count of 1/100000 km/h (1.60934 has five       *)
(*    decimals), a mean of speeds and a traversal time are exact rationals *)
(*    [num, den]; Python computes them in binary floating point;           *)
(*  - a raised exception is recorded by its Python name, "none" when the   *)
(*    call returned.                                                       *)
(***************************************************************************)
EXTENDS Integers, Sequences, FiniteSets, TLC

(***************************************************************************)
(* Python str operations used by __parse_max_speed_to_kmh.                 *)
(***************************************************************************)
Digits == {"0", "1", "2", "3", "4", "5", "6", "7", "8", "9"}

Whitespace == {" "}

DigitVal(c) ==
    CASE c = "0" -> 0 [] c = "1" -> 1 [] c = "2" -> 2 [] c = "3" -> 3
      [] c = "4" -> 4 [] c = "5" -> 5 [] c = "6" -> 6 [] c = "7" -> 7
      [] c = "8" -> 8 [] c = "9" -> 9

RECURSIVE DigitsValue(_)
DigitsValue(s) ==
    IF s = <<>> THEN 0
    ELSE 10 * DigitsValue(SubSeq(s, 1, Len(s) - 1)) + DigitVal(s[Len(s)])

\* str.lower(): only the upper-case letters of the model's alphabet.
LowerChar(c) ==
    CASE c = "N" -> "n" [] c = "O" -> "o" [] c = "E" -> "e"
      [] c = "M" -> "m" [] c = "P" -> "p" [] c = "H" -> "h"
      [] OTHER -> c

PyLower(s) == [i \in 1..Len(s) |-> LowerChar(s[i])]

RECURSIVE PyLStrip(_)
PyLStrip(s) ==
    IF s # <<>> /\ s[1] \in Whitespace THEN PyLStrip(Tail(s)) ELSE s

RECURSIVE PyRStrip(_)
PyRStrip(s) ==
    IF s # <<>> /\ s[Len(s)] \in Whitespace
    THEN PyRStrip(SubSeq(s, 1, Len(s) - 1)) ELSE s

PyStrip(s) == PyRStrip(PyLStrip(s))

\* The first whitespace-free run of s (s has no leading whitespace).
RECURSIVE PyWord(_)
PyWord(s) ==
    IF s = <<>> \/ s[1] \in Whitespace THEN <<>>
    ELSE <<s[1]>> \o PyWord(Tail(s))

\* str.split() with no separator: the runs of non-whitespace characters.
RECURSIVE PySplit(_)
PySplit(s) ==
    LET t == PyLStrip(s)
        w == PyWord(t)
    IN  IF t = <<>> THEN <<>>
        ELSE <<w>> \o PySplit(SubSeq(t, Len(w) + 1, Len(t)))

\* sub in s
PyContains(s, sub) ==
    \E i \in 1..(Len(s) - Len(sub) + 1) : SubSeq(s, i, i + Len(sub) - 1) = sub

\* int(tok): an optional sign and one or more decimal digits; anything else
\* is a ValueError (ok = FALSE). tok has no whitespace (it is a split token).
PyInt(tok) ==
    LET signed == tok # <<>> /\ tok[1] \in {"+", "-"}
        digits == IF signed THEN Tail(tok) ELSE tok
        wellformed == digits # <<>> /\ \A i \in 1..Len(digits) : digits[i] \in Digits
    IN  IF wellformed
        THEN [ok |-> TRUE,
              val |-> IF tok[1] = "-" THEN 0 - DigitsValue(digits)
                      ELSE DigitsValue(digits)]
        ELSE [ok |-> FALSE, val |-> 0]

(***************************************************************************)
(* Speeds. One unit is 1/100000 km/h.                                      *)
(***************************************************************************)
KmhUnit == 100000

\* self.DEFAULT_SPEED = 48.28
DEFAULT_SPEED == 4828000

\* conversion = 1.60934 if "mph" in max_speed else 1
MphConversion == 160934

\* __parse_max_speed_to_kmh
ParseMaxSpeedToKmh(max_speed) ==
    IF PyLower(max_speed) = <<"n", "o", "n", "e">> \/ PyStrip(max_speed) = <<>>
    THEN DEFAULT_SPEED
    ELSE LET conversion == IF PyContains(max_speed, <<"m", "p", "h">>)
                           THEN MphConversion ELSE KmhUnit
             parsed == PyInt(PySplit(max_speed)[1])
             speed == IF parsed.ok THEN parsed.val * conversion ELSE DEFAULT_SPEED
         IN  IF speed # 0 THEN speed ELSE DEFAULT_SPEED

(***************************************************************************)
(* Exact rationals [num, den], den > 0, in lowest terms.                   *)
(***************************************************************************)
Abs(n) == IF n < 0 THEN 0 - n ELSE n

RECURSIVE Gcd(_, _)
Gcd(a, b) == IF b = 0 THEN a ELSE Gcd(b, a % b)

Rat(n, d) ==
    LET g == Gcd(Abs(n), Abs(d))
        s == IF d < 0 THEN 0 - 1 ELSE 1
    IN  [num |-> (s * n) \div g, den |-> (s * d) \div g]

RatInt(n) == [num |-> n, den |-> 1]

\* The least common denominator keeps the products small.
Lcd(a, b) == (a.den \div Gcd(a.den, b.den)) * b.den

Scaled(a, l) == a.num * (l \div a.den)

RatAdd(a, b) ==
    LET l == Lcd(a, b) IN Rat(Scaled(a, l) + Scaled(b, l), l)

RatLess(a, b) ==
    LET l == Lcd(a, b) IN Scaled(a, l) < Scaled(b, l)

RatLeq(a, b) ==
    LET l == Lcd(a, b) IN Scaled(a, l) <= Scaled(b, l)

(***************************************************************************)
(* The value of a segment's "maxspeed" attribute: absent, a str, or a list *)
(* of str.                                                                 *)
(***************************************************************************)
NoMaxSpeed == [kind |-> "absent"]

StrMaxSpeed(s) == [kind |-> "str", s |-> s]

ListMaxSpeed(l) == [kind |-> "list", l |-> l]

\* Python truthiness of data.get("maxspeed"): None, "" and [] are false.
Truthy(max_speed) ==
    \/ max_speed.kind = "str" /\ max_speed.s # <<>>
    \/ max_speed.kind = "list" /\ max_speed.l # <<>>

RECURSIVE SumParsed(_)
SumParsed(l) ==
    IF l = <<>> THEN 0 ELSE ParseMaxSpeedToKmh(Head(l)) + SumParsed(Tail(l))

\* The speed of one segment, lines 78-84 of __update_graph_with_times: a
\* rational count of speed units (the mean of a list is sum / len).
ResolveSpeed(max_speed) ==
    IF Truthy(max_speed)
    THEN IF max_speed.kind = "list"
         THEN [num |-> SumParsed(max_speed.l), den |-> Len(max_speed.l)]
         ELSE [num |-> ParseMaxSpeedToKmh(max_speed.s), den |-> 1]
    ELSE [num |-> DEFAULT_SPEED, den |-> 1]

\* Lines 86-87 for a resolved speed and a length in meters:
\*   meters_per_minute = speed * 1000 / 60 ; time = length / meters_per_minute
\* With speed = num / (den * KmhUnit) km/h this is
\*   length * den * KmhUnit * 60 / (num * 1000).
\* A speed of 0 makes the division raise ZeroDivisionError.
TravelTime(length, speed) ==
    IF speed.num = 0
    THEN [raised |-> "ZeroDivisionError", time |-> RatInt(0)]
    ELSE [raised |-> "none",
          time |-> Rat(length * speed.den * ((KmhUnit * 60) \div 1000), speed.num)]

(***************************************************************************)
(* The road network: a MultiDiGraph. Nodes carry a position (x = lon,      *)
(* y = lat); a segment (u, v, key) carries length (possibly missing),      *)
(* maxspeed and, once annotated, time. edges is a sequence: the order in   *)
(* which the segments were added, which is the order G.edges() and the     *)
(* adjacency dicts iterate in.                                             *)
(***************************************************************************)
Nodes == 1..5

\* data['x'] (longitude) and data['y'] (latitude) of a node: the corners of
\* a square and its centre.
NodeX(n) == CASE n = 1 -> 0 [] n = 2 -> 0 [] n = 3 -> 2 [] n = 4 -> 2 [] n = 5 -> 1

NodeY(n) == CASE n = 1 -> 0 [] n = 2 -> 2 [] n = 3 -> 2 [] n = 4 -> 0 [] n = 5 -> 1

Segment(u, v, key, has_length, length, maxspeed) ==
    [u |-> u, v |-> v, key |-> key, has_length |-> has_length, length |-> length,
     maxspeed |-> maxspeed, has_time |-> FALSE, time |-> RatInt(0)]

\* data.get("geometry") of a segment: in the files of the model the
\* segments that leave node 1 carry a geometry, the others carry none.
HasGeometry(e) == e.u = 1

\* data.get("position") of a node: nodes 1 to 3 carry a position attribute
\* next to their x and y, nodes 4 and 5 carry x and y only.
HasPosition(n) == n \in 1..3

\* self.G = '' / self.sub_graph = '' of __init__: not a graph yet.
NoGraph == [loaded |-> FALSE, nodes |-> {}, edges |-> <<>>]

\* __update_graph_with_times over edges[i..]: each segment in turn gets its
\* time; the first segment that makes line 87 raise ends the pass, leaving
\* the segments before it annotated and the rest as they were.
RECURSIVE UpdateGraphWithTimesFrom(_, _)
UpdateGraphWithTimesFrom(edges, i) ==
    IF i > Len(edges) THEN [raised |-> "none", edges |-> edges]
    ELSE LET data == edges[i]
             speed == ResolveSpeed(data.maxspeed)
             tt == TravelTime(data.length, speed)
         IN  IF ~data.has_length
             THEN [raised |-> "KeyError", edges |-> edges]
             ELSE IF tt.raised # "none"
             THEN [raised |-> tt.raised, edges |-> edges]
             ELSE UpdateGraphWithTimesFrom(
                      [edges EXCEPT ![i].has_time = TRUE, ![i].time = tt.time], i + 1)

\* __update_graph_with_times
UpdateGraphWithTimes(edges) == UpdateGraphWithTimesFrom(edges, 1)

(***************************************************************************)
(* networkx: the weight function of a multigraph, Dijkstra as              *)
(* _dijkstra_multisource runs it (one source), ego_graph and               *)
(* shortest_path. These are the library routines generate_isochrone and    *)
(* generate_shortest_paths call.                                           *)
(***************************************************************************)
\* attr.get(weight, 1) for one segment
AttrOrOne(e, weight) ==
    IF weight = "time" THEN (IF e.has_time THEN e.time ELSE RatInt(1))
    ELSE (IF e.has_length THEN RatInt(e.length) ELSE RatInt(1))

RatMin(S) == CHOOSE r \in S : \A q \in S : RatLeq(r, q)

\* _weight_function for a multigraph: the least weight of the parallel
\* segments from v to u.
Weight(g, v, u, weight) ==
    RatMin({AttrOrOne(g.edges[i], weight) :
              i \in {j \in 1..Len(g.edges) : g.edges[j].u = v /\ g.edges[j].v = u}})

\* The keys of G._adj[v], in insertion order.
RECURSIVE SuccessorsFrom(_, _, _, _)
SuccessorsFrom(edges, v, i, acc) ==
    IF i > Len(edges) THEN acc
    ELSE LET e == edges[i]
             have == \E k \in 1..Len(acc) : acc[k] = e.v
         IN  SuccessorsFrom(edges, v, i + 1,
                 IF e.u = v /\ ~have THEN Append(acc, e.v) ELSE acc)

Successors(g, v) == SuccessorsFrom(g.edges, v, 1, <<>>)

NoCutoff == [has |-> FALSE, r |-> RatInt(0)]

Cutoff(r) == [has |-> TRUE, r |-> r]

NoTarget == [has |-> FALSE, n |-> 0]

Target(n) == [has |-> TRUE, n |-> n]

\* A faulty variant of BeyondCutoff: the comparison the other way round.
BeyondCutoff_Flipped(vu_dist, cutoff) == cutoff.has /\ RatLess(vu_dist, cutoff.r)

\* if vu_dist > cutoff: continue
BeyondCutoff(vu_dist, cutoff) == cutoff.has /\ RatLess(cutoff.r, vu_dist)

\* The for-loop over G_succ[v].items() of _dijkstra_multisource.
RECURSIVE DijkstraRelax(_, _, _, _, _, _)
DijkstraRelax(g, weight, cutoff, st, v, succ) ==
    IF succ = <<>> THEN st
    ELSE LET u == Head(succ)
             vu_dist == RatAdd(st.dist[v], Weight(g, v, u, weight))
         IN  IF BeyondCutoff(vu_dist, cutoff)
             THEN DijkstraRelax(g, weight, cutoff, st, v, Tail(succ))
             ELSE IF u \in DOMAIN st.dist
             THEN IF RatLess(vu_dist, st.dist[u])
                  THEN [st EXCEPT !.raised = "ValueError"]
                  ELSE DijkstraRelax(g, weight, cutoff, st, v, Tail(succ))
             ELSE IF u \notin DOMAIN st.seen \/ RatLess(vu_dist, st.seen[u])
             THEN DijkstraRelax(g, weight, cutoff,
                      [st EXCEPT !.seen = (u :> vu_dist) @@ st.seen,
                                 !.fringe = st.fringe \cup {[d |-> vu_dist, c |-> st.c, v |-> u]},
                                 !.c = st.c + 1,
                                 !.paths = (u :> Append(st.paths[v], u)) @@ st.paths],
                      v, Tail(succ))
             ELSE DijkstraRelax(g, weight, cutoff, st, v, Tail(succ))

\* The while-loop over the heap: entries (d, count, v) pop in that order.
RECURSIVE DijkstraLoop(_, _, _, _, _)
DijkstraLoop(g, weight, cutoff, target, st) ==
    IF st.raised # "none" \/ st.fringe = {} THEN st
    ELSE LET top == CHOOSE f \in st.fringe : \A h \in st.fringe :
                        RatLess(f.d, h.d) \/ (f.d = h.d /\ f.c <= h.c)
             popped == [st EXCEPT !.fringe = st.fringe \ {top}]
         IN  IF top.v \in DOMAIN st.dist
             THEN DijkstraLoop(g, weight, cutoff, target, popped)
             ELSE LET st1 == [popped EXCEPT !.dist = (top.v :> top.d) @@ st.dist]
                  IN  IF target.has /\ top.v = target.n THEN st1
                      ELSE DijkstraLoop(g, weight, cutoff, target,
                               DijkstraRelax(g, weight, cutoff, st1, top.v,
                                             Successors(g, top.v)))

\* single_source_dijkstra(G, source, target, cutoff, weight): dist and paths,
\* or the exception raised.
Dijkstra(g, source, weight, cutoff, target) ==
    IF source \notin g.nodes
    THEN [dist |-> <<>>, seen |-> <<>>, fringe |-> {}, c |-> 0, paths |-> <<>>,
          raised |-> "NodeNotFound"]
    ELSE DijkstraLoop(g, weight, cutoff, target,
             [dist |-> <<>>, seen |-> (source :> RatInt(0)),
              fringe |-> {[d |-> RatInt(0), c |-> 0, v |-> source]}, c |-> 1,
              paths |-> (source :> <<source>>), raised |-> "none"])

\* A faulty variant of Subgraph: every segment that leaves one of the nodes.
Subgraph_ByTail(g, nodes) ==
    [loaded |-> TRUE, nodes |-> nodes \cap g.nodes,
     edges |-> SelectSeq(g.edges, LAMBDA e : e.u \in nodes)]

\* A faulty variant of Subgraph: the nodes without their segments.
Subgraph_NodesOnly(g, nodes) ==
    [loaded |-> TRUE, nodes |-> nodes \cap g.nodes, edges |-> <<>>]

\* A faulty variant of Subgraph: self-loops dropped.
Subgraph_NoLoops(g, nodes) ==
    [loaded |-> TRUE, nodes |-> nodes \cap g.nodes,
     edges |-> SelectSeq(g.edges, LAMBDA e : e.u \in nodes /\ e.v \in nodes /\ e.u # e.v)]

\* G.subgraph(nodes).copy(): the nodes and every segment of G between two
\* of them.
Subgraph(g, nodes) ==
    [loaded |-> TRUE, nodes |-> nodes \cap g.nodes,
     edges |-> SelectSeq(g.edges, LAMBDA e : e.u \in nodes /\ e.v \in nodes)]

\* A faulty variant of EgoGraph: distance='length'.
EgoGraph_ByLength(g, n, radius) ==
    LET sp == Dijkstra(g, n, "length", Cutoff(RatInt(radius)), NoTarget)
    IN  IF sp.raised # "none" THEN [raised |-> sp.raised, graph |-> NoGraph]
        ELSE [raised |-> "none", graph |-> Subgraph(g, DOMAIN sp.dist)]

\* nx.ego_graph(G, n, radius=radius, distance='time')
EgoGraph(g, n, radius) ==
    LET sp == Dijkstra(g, n, "time", Cutoff(RatInt(radius)), NoTarget)
    IN  IF sp.raised # "none" THEN [raised |-> sp.raised, graph |-> NoGraph]
        ELSE [raised |-> "none", graph |-> Subgraph(g, DOMAIN sp.dist)]

\* A faulty variant of ShortestPath: weight='time'.
ShortestPath_ByTime(g, source, target) ==
    IF source \notin g.nodes \/ target \notin g.nodes
    THEN [raised |-> "NodeNotFound", route |-> <<>>]
    ELSE LET sp == Dijkstra(g, source, "time", NoCutoff, Target(target))
         IN  IF sp.raised # "none" THEN [raised |-> sp.raised, route |-> <<>>]
             ELSE IF target \notin DOMAIN sp.dist
             THEN [raised |-> "NetworkXNoPath", route |-> <<>>]
             ELSE [raised |-> "none", route |-> sp.paths[target]]

\* nx.shortest_path(G, source=source, target=target, weight='length')
ShortestPath(g, source, target) ==
    IF source \notin g.nodes \/ target \notin g.nodes
    THEN [raised |-> "NodeNotFound", route |-> <<>>]
    ELSE LET sp == Dijkstra(g, source, "length", NoCutoff, Target(target))
         IN  IF sp.raised # "none" THEN [raised |-> sp.raised, route |-> <<>>]
             ELSE IF target \notin DOMAIN sp.dist
             THEN [raised |-> "NetworkXNoPath", route |-> <<>>]
             ELSE [raised |-> "none", route |-> sp.paths[target]]

(***************************************************************************)
(* osmnx nearest_nodes and the alphashape library.                         *)
(***************************************************************************)
Dist2(n, X, Y) == (NodeX(n) - X) * (NodeX(n) - X) + (NodeY(n) - Y) * (NodeY(n) - Y)

\* ox.distance.nearest_nodes(G, X, Y): the node of G nearest to (X, Y); the
\* first such node on a tie.
NearestNode(g, X, Y) ==
    CHOOSE n \in g.nodes : \A m \in g.nodes :
        Dist2(n, X, Y) < Dist2(m, X, Y) \/ (Dist2(n, X, Y) = Dist2(m, X, Y) /\ n <= m)

\* A geometry: its geom_type and its coordinates, as the nodes whose
\* positions they are: for a Polygon or MultiPolygon the exterior ring of
\* each part (a ring is closed: its last coordinate repeats its first), for
\* a Point or LineString its own coordinates.
Shape(type, parts) == [type |-> type, parts |-> parts]

\* self.polys = '' of __init__
NoShape == Shape("str", <<>>)

Collinear(a, b, c) ==
    (NodeX(b) - NodeX(a)) * (NodeY(c) - NodeY(a))
        = (NodeX(c) - NodeX(a)) * (NodeY(b) - NodeY(a))

RECURSIVE Ascending(_)
Ascending(S) ==
    IF S = {} THEN <<>>
    ELSE LET m == CHOOSE x \in S : \A y \in S : x <= y
         IN  <<m>> \o Ascending(S \ {m})

Ring(S) == LET a == Ascending(S) IN Append(a, a[1])

\* The two ends of a set of collinear points: the pair farthest apart.
Ends(P) ==
    LET pq == CHOOSE pq \in P \X P :
                  /\ pq[1] < pq[2]
                  /\ \A r \in P, t \in P :
                        Dist2(r, NodeX(t), NodeY(t))
                            <= Dist2(pq[1], NodeX(pq[2]), NodeY(pq[2]))
    IN  <<pq[1], pq[2]>>

\* MultiPoint(points).convex_hull for fewer than four points.
ConvexHull(P) ==
    IF Cardinality(P) = 0 THEN Shape("GeometryCollection", <<>>)
    ELSE IF Cardinality(P) = 1 THEN Shape("Point", <<Ascending(P)>>)
    ELSE IF Cardinality(P) = 2 THEN Shape("LineString", <<Ascending(P)>>)
    ELSE LET a == Ascending(P)
         IN  IF Collinear(a[1], a[2], a[3]) THEN Shape("LineString", <<Ends(P)>>)
             ELSE Shape("Polygon", <<Ring(P)>>)

\* The first three nodes of P, in ascending order, that span a triangle.
FirstTriangle(P) ==
    LET a == Ascending(P)
        T == {t \in (1..Len(a)) \X (1..Len(a)) \X (1..Len(a)) :
                t[1] < t[2] /\ t[2] < t[3] /\ ~Collinear(a[t[1]], a[t[2]], a[t[3]])}
        m == CHOOSE t \in T : \A o \in T :
                \/ t[1] < o[1]
                \/ t[1] = o[1] /\ t[2] < o[2]
                \/ t[1] = o[1] /\ t[2] = o[2] /\ t[3] <= o[3]
    IN  {a[m[1]], a[m[2]], a[m[3]]}

\* alphashape.alphashape(points, alpha) for the points of the nodes P: the
\* results the library can return. With fewer than four points it returns
\* their convex hull. Otherwise it keeps the Delaunay triangles whose
\* circumradius is below 1/alpha and returns the union of what is left:
\* nothing (an empty GeometryCollection), one polygon, or several; every
\* vertex of the result is one of the points. Which of these it is depends
\* on the real coordinates, which the model does not hold, so the model
\* admits one result of each kind: nothing, the ring through all points,
\* one triangle, and (five points) two triangles that meet at the centre.
AlphaShapes(P) ==
    IF Cardinality(P) < 4 THEN {ConvexHull(P)}
    ELSE {Shape("GeometryCollection", <<>>), Shape("Polygon", <<Ring(P)>>),
          Shape("Polygon", <<Ring(FirstTriangle(P))>>)}
         \cup (IF P = Nodes
               THEN {Shape("MultiPolygon", <<Ring({1, 2, 5}), Ring({3, 4, 5})>>)}
               ELSE {})

(***************************************************************************)
(* Bounds of the model and the inputs drawn within them.                   *)
(***************************************************************************)
\* max_drive_time ranges over 0..MaxBudget (minutes).
MaxBudget == 2

\* Calls that run the body of a loader or of generate_isochrone (calls the
\* memo tables do not answer) in a behaviour of Spec.
MaxCalls == 3

\* The same in a behaviour of SpecReach.
ReachCalls == 2

\* Segments of a network of SpecReach.
MaxSegments == 3

\* Elements of a maxspeed list in SpecSpeed.
MaxListLen == 2

Budgets == 0..MaxBudget

\* The (lat, lon) pairs callers ask for: the first is the position of node 1,
\* the second lies east of node 4.
QueryPoints == {<<0, 0>>, <<0, 3>>}

S60 == StrMaxSpeed(<<"6", "0">>)

S30 == StrMaxSpeed(<<"3", "0">>)

SNeg30 == StrMaxSpeed(<<"-", "3", "0">>)

S30mph == StrMaxSpeed(<<"3", "0", " ", "m", "p", "h">>)

\* The segments the networks of SpecReach are made of: a network is any
\* MaxSegments of them, in this order.
CandidateSegments ==
    << Segment(1, 2, 0, TRUE, 1000, S60),
       Segment(1, 4, 0, TRUE, 1207, NoMaxSpeed),
       Segment(2, 4, 0, TRUE, 1500,
               ListMaxSpeed(<< <<"6", "0">>, <<"3", "0">> >>)),
       Segment(1, 1, 0, TRUE, 1000, S60),
       Segment(1, 2, 1, TRUE, 2000, S60),
       Segment(4, 3, 0, TRUE, 0, S60),
       Segment(2, 3, 0, TRUE, 1000, SNeg30),
       Segment(4, 1, 0, TRUE, 1000, S30mph),
       Segment(4, 5, 0, FALSE, 0, S60) >>

RECURSIVE Pick(_, _, _)
Pick(segs, I, i) ==
    IF i > Len(segs) THEN <<>>
    ELSE (IF i \in I THEN <<segs[i]>> ELSE <<>>) \o Pick(segs, I, i + 1)

ReachNetworks ==
    {Pick(CandidateSegments, I, 1) :
       I \in {J \in SUBSET (1..Len(CandidateSegments)) : Cardinality(J) <= MaxSegments}}

\* The GraphML files of Spec. In a.graphml the segment 3 -> 2 carries a
\* negative speed limit; b.graphml spans all five nodes.
FileA ==
    << Segment(1, 2, 0, TRUE, 1000, S60),
       Segment(1, 4, 0, TRUE, 1000, S60),
       Segment(4, 2, 0, TRUE, 1000, S60),
       Segment(4, 3, 0, TRUE, 1000, S30),
       Segment(3, 2, 0, TRUE, 1000, SNeg30) >>

FileB ==
    << Segment(1, 5, 0, TRUE, 1000, S30),
       Segment(5, 4, 0, TRUE, 500, S30),
       Segment(1, 4, 0, TRUE, 2000, S60),
       Segment(1, 2, 0, TRUE, 1000, S60),
       Segment(2, 3, 0, TRUE, 1000, S60) >>

Paths == {"a.graphml", "b.graphml"}

\* The strings a maxspeed annotation is made of in SpecSpeed.
SpeedStrings ==
    { <<>>, <<" ">>, <<"n", "o", "n", "e">>, <<"N", "o", "n", "e">>,
      <<"5", "0">>, <<"0">>, <<"-", "3", "0">>,
      <<"3", "0", " ", "m", "p", "h">>, <<"2", "0", " ", "m", "p", "h">>,
      <<"5", "0", " ", "k", "m", "/", "h">>, <<"5", "0", " ", "k", "m", "p", "h">>,
      <<"3", "0", ".", "5">>, <<"3", "0", "m", "p", "h">>,
      <<"s", "i", "g", "n", "a", "l", "s">>, <<" ", "4", "0", " ">> }

RECURSIVE SeqsUpTo(_, _)
SeqsUpTo(S, n) ==
    IF n = 0 THEN {<<>>}
    ELSE LET shorter == SeqsUpTo(S, n - 1)
         IN  shorter \cup {Append(q, x) : q \in shorter, x \in S}

Annotations ==
    {NoMaxSpeed} \cup {StrMaxSpeed(x) : x \in SpeedStrings}
                 \cup {ListMaxSpeed(l) : l \in SeqsUpTo(SpeedStrings, MaxListLen)}

(***************************************************************************)
(* The state: the files on disk, one IsochroneGenerator and the memo       *)
(* tables functools.lru_cache keeps for its methods, and what the last     *)
(* call did.                                                               *)
(***************************************************************************)
VARIABLES
    files,        \* path -> the segments of the GraphML file at that path
    G,            \* self.G
    graph_path,   \* self.graph_path
    load_cache,   \* lru_cache of _load_graph_from_file: the paths it holds
    center_node,  \* self.center_node (0: the '' of __init__)
    sub_graph,    \* self.sub_graph
    polys,        \* self.polys
    iso_cache,    \* lru_cache of generate_isochrone: <<lat, lon, t>> -> polygon
    hulls,        \* what alphashape has returned: <<points, alpha>> -> shape
    last,         \* the last call: its operation, arguments and outcome
    calls_left,   \* calls that run a body still to be made in this behaviour
    ann,          \* SpecSpeed: the maxspeed annotation to resolve
    res,          \* SpecSpeed: the resolved speed
    threads       \* SpecThreads: each caller's place in generate_isochrone

vars == <<files, G, graph_path, load_cache, center_node, sub_graph, polys,
          iso_cache, hulls, last, calls_left, ann, res, threads>>

generator == <<G, graph_path, load_cache, center_node, sub_graph, polys, iso_cache>>

Call(op, args, raised, hit, ret_polys, ret_routes) ==
    [op |-> op, args |-> args, raised |-> raised, hit |-> hit,
     polys |-> ret_polys, routes |-> ret_routes, features |-> <<>>,
     alphas |-> <<>>]

NoRes == [done |-> FALSE, speed |-> RatInt(0)]

\* The threads of SpecThreads, and what one of them holds: the statement it
\* is at, its arguments, its local points and what it returned.
Callers == {1, 2}

Thread(pc, args, points, ret) ==
    [pc |-> pc, args |-> args, points |-> points, ret |-> ret]

\* IsochroneGenerator(): __init__
InitGenerator ==
    /\ G = NoGraph
    /\ graph_path = ""
    /\ load_cache = {}
    /\ center_node = 0
    /\ sub_graph = NoGraph
    /\ polys = NoShape
    /\ iso_cache = <<>>
    /\ hulls = <<>>
    /\ last = Call("init", <<>>, "none", FALSE, NoShape, <<>>)

Init ==
    /\ InitGenerator
    /\ files = ("a.graphml" :> FileA) @@ ("b.graphml" :> FileB)
    /\ calls_left = MaxCalls
    /\ ann = NoMaxSpeed
    /\ res = NoRes
    /\ threads = <<>>

InitReach ==
    /\ InitGenerator
    /\ files \in {("a.graphml" :> net) : net \in ReachNetworks}
    /\ calls_left = ReachCalls
    /\ ann = NoMaxSpeed
    /\ res = NoRes
    /\ threads = <<>>

\* The generator after _load_graph_from_file(path) has returned, and two
\* callers about to run the body of generate_isochrone, each with its own
\* arguments, none of them in the memo table.
InitThreads ==
    /\ files = ("a.graphml" :> FileA) @@ ("b.graphml" :> FileB)
    /\ \E path \in Paths :
         /\ graph_path = path
         /\ load_cache = {path}
         /\ G = [loaded |-> TRUE, nodes |-> Nodes,
                 edges |-> UpdateGraphWithTimes(files[path]).edges]
         /\ last = Call("load", <<path>>, "none", FALSE, NoShape, <<>>)
    /\ center_node = 0
    /\ sub_graph = NoGraph
    /\ polys = NoShape
    /\ iso_cache = <<>>
    /\ hulls = <<>>
    /\ calls_left = 0
    /\ ann = NoMaxSpeed
    /\ res = NoRes
    /\ threads \in {th \in [Callers -> {Thread("143", <<q[1], q[2], b>>, {}, NoShape) :
                                             q \in QueryPoints, b \in Budgets}] :
                        th[1].args # th[2].args}

InitSpeed ==
    /\ InitGenerator
    /\ files = <<>>
    /\ calls_left = 0
    /\ ann \in Annotations
    /\ res = NoRes
    /\ threads = <<>>

(***************************************************************************)
(* The operations.                                                         *)
(***************************************************************************)
\* _load_graph_from_file(graph_path), under functools.lru_cache: a path
\* loaded before returns the memoized graph and runs nothing. Otherwise the
\* file is read into self.G and the time pass runs over it; a call that
\* raises is not memoized, and leaves self.G as far as the pass got.
LoadGraphFromFile(path) ==
    /\ IF path \in load_cache
       THEN /\ last' = Call("load", <<path>>, "none", TRUE, NoShape, <<>>)
            /\ UNCHANGED <<G, graph_path, load_cache, calls_left>>
       ELSE /\ calls_left > 0
            /\ calls_left' = calls_left - 1
            /\ graph_path' = path
            /\ IF path \notin DOMAIN files
               THEN /\ last' = Call("load", <<path>>, "FileNotFoundError", FALSE,
                                     NoShape, <<>>)
                    /\ UNCHANGED <<G, load_cache>>
               ELSE LET pass == UpdateGraphWithTimes(files[path])
                    IN  /\ G' = [loaded |-> TRUE, nodes |-> Nodes, edges |-> pass.edges]
                        /\ load_cache' = IF pass.raised = "none"
                                          THEN load_cache \cup {path} ELSE load_cache
                        /\ last' = Call("load", <<path>>, pass.raised, FALSE,
                                         NoShape, <<>>)
    /\ UNCHANGED <<files, center_node, sub_graph, polys, iso_cache, hulls, ann, res, threads>>

\* alphashape.alphashape(points, alpha=30), line 155
Alpha == 30

\* alphashape.alphashape(points, alpha=20), line 159
RetryAlpha == 20

\* A faulty variant of NeedsRetry: every result but a single polygon.
NeedsRetry_NotPolygon(shape) == shape.type # "Polygon"

\* if self.polys and self.polys.geom_type == 'MultiPolygon' (a MultiPolygon
\* is not empty, so it is truthy)
NeedsRetry(shape) == shape.type = "MultiPolygon"

\* alphashape returns the same shape for the same points and alpha.
Returns(key, shape) == key \in DOMAIN hulls => hulls[key] = shape

\* The body of generate_isochrone, lines 143-178: the nearest node becomes
\* center_node, its ego graph becomes sub_graph, the alpha shape of its
\* nodes at alpha 30 becomes polys, and if that is a MultiPolygon the alpha
\* shape at alpha 20 replaces it. lru_cache memoizes the polygon returned,
\* not an exception.
GenerateIsochroneBody(lat, lon, max_drive_time) ==
    LET args == <<lat, lon, max_drive_time>>
    IN  IF ~G.loaded
        THEN \* nearest_nodes on the '' of __init__
             /\ last' = Call("generate_isochrone", args, "AttributeError", FALSE,
                              NoShape, <<>>)
             /\ UNCHANGED <<center_node, sub_graph, polys, iso_cache, hulls>>
        ELSE LET center == NearestNode(G, lon, lat)
                 ego == EgoGraph(G, center, max_drive_time)
                 P == ego.graph.nodes
             IN  /\ center_node' = center
                 /\ IF ego.raised # "none"
                    THEN /\ last' = Call("generate_isochrone", args, ego.raised,
                                          FALSE, NoShape, <<>>)
                         /\ UNCHANGED <<sub_graph, polys, iso_cache, hulls>>
                    ELSE \E first \in AlphaShapes(P) :
                           /\ Returns(<<P, Alpha>>, first)
                           /\ \E second \in (IF NeedsRetry(first)
                                              THEN AlphaShapes(P) ELSE {first}) :
                                LET retry == NeedsRetry(first)
                                    result == IF retry THEN second ELSE first
                                IN  /\ retry => Returns(<<P, RetryAlpha>>, second)
                                    /\ hulls' = (IF retry THEN (<<P, RetryAlpha>> :> second)
                                                 ELSE <<>>)
                                                @@ (<<P, Alpha>> :> first) @@ hulls
                                    /\ sub_graph' = ego.graph
                                    /\ polys' = result
                                    /\ iso_cache' = (args :> result) @@ iso_cache
                                    /\ last' = [Call("generate_isochrone", args,
                                                      "none", FALSE, result, <<>>)
                                                   EXCEPT !.alphas =
                                                     IF retry THEN <<Alpha, RetryAlpha>>
                                                     ELSE <<Alpha>>]

\* generate_isochrone(lat, lon, max_drive_time), under functools.lru_cache:
\* arguments seen before return the memoized polygon and run nothing.
GenerateIsochrone(lat, lon, max_drive_time) ==
    LET args == <<lat, lon, max_drive_time>>
    IN  /\ UNCHANGED <<files, G, graph_path, load_cache, ann, res, threads>>
        /\ IF args \in DOMAIN iso_cache
           THEN /\ last' = Call("generate_isochrone", args, "none", TRUE,
                                 iso_cache[args], <<>>)
                /\ UNCHANGED <<center_node, sub_graph, polys, iso_cache, hulls,
                               calls_left>>
           ELSE /\ calls_left > 0
                /\ calls_left' = calls_left - 1
                /\ GenerateIsochroneBody(lat, lon, max_drive_time)

\* boundary_coords of generate_shortest_paths: the exterior coordinates of
\* the polygon, or of every polygon of a MultiPolygon.
RECURSIVE Concat(_)
Concat(seqs) == IF seqs = <<>> THEN <<>> ELSE Head(seqs) \o Concat(Tail(seqs))

BoundaryCoords(shape) == Concat(shape.parts)

\* (y, x) of the nodes of a route: the positions of the Polyline.
PathCoords(route) == [i \in 1..Len(route) |-> <<NodeY(route[i]), NodeX(route[i])>>]

\* The loop over boundary_nodes: one shortest path each, by length; the
\* first search that raises ends the loop and the call.
RECURSIVE RoutesFrom(_, _, _, _, _)
RoutesFrom(g, source, boundary_nodes, i, acc) ==
    IF i > Len(boundary_nodes) THEN [raised |-> "none", paths |-> acc]
    ELSE LET sp == ShortestPath(g, source, boundary_nodes[i])
         IN  IF sp.raised # "none" THEN [raised |-> sp.raised, paths |-> <<>>]
             ELSE RoutesFrom(g, source, boundary_nodes, i + 1,
                             Append(acc, PathCoords(sp.route)))

\* boundary_nodes: the node of sub_graph nearest to each boundary coordinate.
BoundaryNodes(g, shape) ==
    LET coords == BoundaryCoords(shape)
    IN  [i \in 1..Len(coords) |-> NearestNode(g, NodeX(coords[i]), NodeY(coords[i]))]

\* generate_shortest_paths(): reads self.polys, self.sub_graph and
\* self.center_node and changes none of them. `for poly in self.polys`
\* walks the parts of a MultiPolygon under Shapely 1.x and raises TypeError
\* under Shapely 2, where a multi-part geometry is not iterable.
ShortestPaths(g, source, shape, parts_iterable) ==
    IF shape.type = "str" THEN [raised |-> "TypeError", paths |-> <<>>]
    ELSE IF shape.type = "MultiPolygon" /\ ~parts_iterable
    THEN [raised |-> "TypeError", paths |-> <<>>]
    ELSE IF shape.type \notin {"Polygon", "MultiPolygon"}
    THEN [raised |-> "AttributeError", paths |-> <<>>]
    ELSE RoutesFrom(g, source, BoundaryNodes(g, shape), 1, <<>>)

GenerateShortestPaths ==
    /\ \E parts_iterable \in (IF polys.type = "MultiPolygon" THEN BOOLEAN ELSE {TRUE}) :
         LET r == ShortestPaths(sub_graph, center_node, polys, parts_iterable)
         IN  last' = Call("generate_shortest_paths", <<>>, r.raised, FALSE, NoShape, r.paths)
    /\ UNCHANGED <<files, G, graph_path, load_cache, center_node, sub_graph, polys,
                   iso_cache, hulls, calls_left, ann, res, threads>>

\* The features of graph_to_geojson: a LineString for every segment of g
\* that has a geometry, in the order of g.edges(), then a Point for every
\* node that has a position.
LineFeatures(g) ==
    LET with == SelectSeq(g.edges, HasGeometry)
    IN  [i \in 1..Len(with) |->
            [type |-> "LineString", from |-> with[i].u, to |-> with[i].v]]

PointFeatures(g) ==
    LET with == SelectSeq(Ascending(g.nodes), HasPosition)
    IN  [i \in 1..Len(with) |-> [type |-> "Point", node_id |-> with[i]]]

\* graph_to_geojson(): reads self.sub_graph and changes nothing; on the ''
\* of __init__ it raises AttributeError.
GraphToGeojson ==
    /\ last' = IF ~sub_graph.loaded
               THEN Call("graph_to_geojson", <<>>, "AttributeError", FALSE, NoShape, <<>>)
               ELSE [Call("graph_to_geojson", <<>>, "none", FALSE, NoShape, <<>>)
                        EXCEPT !.features = LineFeatures(sub_graph)
                                                \o PointFeatures(sub_graph)]
    /\ UNCHANGED <<files, G, graph_path, load_cache, center_node, sub_graph, polys,
                   iso_cache, hulls, calls_left, ann, res, threads>>

(***************************************************************************)
(* generate_isochrone called by two threads on one generator. A thread can *)
(* be switched out between any two statements, so each statement that      *)
(* reads or writes a field of self is a step of its own: line 143 writes   *)
(* self.center_node, line 144 reads it and writes self.sub_graph, lines    *)
(* 147-153 read self.sub_graph into the local points, line 155 writes      *)
(* self.polys, lines 158-159 read and write it, line 178 reads it.         *)
(***************************************************************************)
Goto(t, pc) == [threads EXCEPT ![t].pc = pc]

\* Line 143: self.center_node = ox.distance.nearest_nodes(self.G, lon, lat)
SetCenterNode(t) ==
    /\ threads[t].pc = "143"
    /\ center_node' = NearestNode(G, threads[t].args[2], threads[t].args[1])
    /\ threads' = Goto(t, "144")
    /\ UNCHANGED <<files, G, graph_path, load_cache, sub_graph, polys, iso_cache,
                   hulls, last, calls_left, ann, res>>

\* Line 144: self.sub_graph = nx.ego_graph(self.G, self.center_node, ...)
SetSubGraph(t) ==
    /\ threads[t].pc = "144"
    /\ LET ego == EgoGraph(G, center_node, threads[t].args[3])
       IN  IF ego.raised # "none"
           THEN /\ threads' = Goto(t, "raised")
                /\ UNCHANGED sub_graph
           ELSE /\ threads' = Goto(t, "147")
                /\ sub_graph' = ego.graph
    /\ UNCHANGED <<files, G, graph_path, load_cache, center_node, polys, iso_cache,
                   hulls, last, calls_left, ann, res>>

\* Lines 147-153: points, from self.sub_graph.nodes(data=True)
ReadPoints(t) ==
    /\ threads[t].pc = "147"
    /\ threads' = [threads EXCEPT ![t].pc = "155", ![t].points = sub_graph.nodes]
    /\ UNCHANGED <<files, G, graph_path, load_cache, center_node, sub_graph, polys,
                   iso_cache, hulls, last, calls_left, ann, res>>

\* Line 155: self.polys = alphashape.alphashape(points, alpha=30)
FirstHull(t) ==
    /\ threads[t].pc = "155"
    /\ \E first \in AlphaShapes(threads[t].points) :
         /\ Returns(<<threads[t].points, Alpha>>, first)
         /\ hulls' = (<<threads[t].points, Alpha>> :> first) @@ hulls
         /\ polys' = first
    /\ threads' = Goto(t, "158")
    /\ UNCHANGED <<files, G, graph_path, load_cache, center_node, sub_graph,
                   iso_cache, last, calls_left, ann, res>>

\* Lines 158-159: if self.polys is a MultiPolygon,
\* self.polys = alphashape.alphashape(points, alpha=20)
RetryHull(t) ==
    /\ threads[t].pc = "158"
    /\ IF NeedsRetry(polys)
       THEN \E second \in AlphaShapes(threads[t].points) :
              /\ Returns(<<threads[t].points, RetryAlpha>>, second)
              /\ hulls' = (<<threads[t].points, RetryAlpha>> :> second) @@ hulls
              /\ polys' = second
       ELSE UNCHANGED <<polys, hulls>>
    /\ threads' = Goto(t, "178")
    /\ UNCHANGED <<files, G, graph_path, load_cache, center_node, sub_graph,
                   iso_cache, last, calls_left, ann, res>>

\* Line 178: return self.polys; lru_cache memoizes what is returned.
ReturnPolys(t) ==
    /\ threads[t].pc = "178"
    /\ threads' = [threads EXCEPT ![t].pc = "done", ![t].ret = polys]
    /\ iso_cache' = (threads[t].args :> polys) @@ iso_cache
    /\ UNCHANGED <<files, G, graph_path, load_cache, center_node, sub_graph, polys,
                   hulls, last, calls_left, ann, res>>

\* Lines 78-84 applied to one maxspeed annotation.
Resolve ==
    /\ ~res.done
    /\ res' = [done |-> TRUE, speed |-> ResolveSpeed(ann)]
    /\ UNCHANGED <<files, G, graph_path, load_cache, center_node, sub_graph, polys,
                   iso_cache, hulls, last, calls_left, ann, threads>>

Next ==
    \/ \E path \in Paths : LoadGraphFromFile(path)
    \/ \E q \in QueryPoints, t \in Budgets : GenerateIsochrone(q[1], q[2], t)
    \/ GenerateShortestPaths
    \/ GraphToGeojson

NextSpeed == Resolve

NextThreads ==
    \E t \in Callers :
        \/ SetCenterNode(t)
        \/ SetSubGraph(t)
        \/ ReadPoints(t)
        \/ FirstHull(t)
        \/ RetryHull(t)
        \/ ReturnPolys(t)

\* A generator used over the files a.graphml and b.graphml.
Spec == Init /\ [][Next]_vars

\* A generator used over one file holding any network of ReachNetworks.
SpecReach == InitReach /\ [][Next]_vars

\* The speed of one segment, for any annotation of Annotations.
SpecSpeed == InitSpeed /\ [][NextSpeed]_vars

\* Two threads in generate_isochrone, with different arguments, on a
\* generator that has loaded one of the files.
SpecThreads == InitThreads /\ [][NextThreads]_vars

(***************************************************************************)
(* Shortest time-distances, by enumeration: the walks of a network that    *)
(* start at a node and never visit a node twice, as sequences of segment   *)
(* indices, and the sum of their segments' times.                          *)
(***************************************************************************)
WalkEnd(g, s, w) == IF w = <<>> THEN s ELSE g.edges[w[Len(w)]].v

WalkNodes(g, s, w) == {s} \cup {g.edges[w[i]].v : i \in 1..Len(w)}

SimpleWalk(g, s, w) ==
    /\ \A i \in 1..Len(w) :
          g.edges[w[i]].u = (IF i = 1 THEN s ELSE g.edges[w[i - 1]].v)
    /\ Cardinality(WalkNodes(g, s, w)) = Len(w) + 1

RECURSIVE Extensions(_, _, _, _)
Extensions(g, s, frontier, k) ==
    IF k = 0 \/ frontier = {} THEN frontier
    ELSE LET next == {Append(w, i) : w \in frontier, i \in 1..Len(g.edges)}
             good == {w \in next : SimpleWalk(g, s, w)}
         IN  frontier \cup Extensions(g, s, good, k - 1)

Walks(g, s) == Extensions(g, s, {<<>>}, Cardinality(g.nodes))

RECURSIVE WalkTime(_, _)
WalkTime(g, w) ==
    IF w = <<>> THEN RatInt(0)
    ELSE RatAdd(WalkTime(g, SubSeq(w, 1, Len(w) - 1)), g.edges[w[Len(w)]].time)

RECURSIVE WalkLength(_, _)
WalkLength(g, w) ==
    IF w = <<>> THEN 0
    ELSE WalkLength(g, SubSeq(w, 1, Len(w) - 1)) + g.edges[w[Len(w)]].length

\* shortestTime(s, n) + extra <= budget
WithinBudget(g, s, n, extra, budget) ==
    \E w \in Walks(g, s) :
        WalkEnd(g, s, w) = n /\ RatLeq(RatAdd(WalkTime(g, w), extra), RatInt(budget))

\* The nodes whose shortest time-distance from s is at most budget.
Ball(g, s, budget) == {n \in g.nodes : WithinBudget(g, s, n, RatInt(0), budget)}

PositiveTimes(g) ==
    \A i \in 1..Len(g.edges) : g.edges[i].has_time /\ g.edges[i].time.num > 0

Edges(g) == {g.edges[i] : i \in 1..Len(g.edges)}

\* The last call was generate_isochrone, it ran its body and it returned.
GenDone ==
    last.op = "generate_isochrone" /\ last.raised = "none" /\ ~last.hit

Budget == last.args[3]

(***************************************************************************)
(* Claims about the reachability step, under SpecReach: one file holding   *)
(* any network of ReachNetworks.                                           *)
(***************************************************************************)
\* C1: when every segment time is positive, the nodes of the subgraph
\* generate_isochrone computes are exactly the nodes whose shortest
\* time-distance from the source is at most the budget (the source is at
\* distance 0).
C1_SubgraphNodesAreTheBall ==
    (GenDone /\ PositiveTimes(G))
        => sub_graph.nodes = Ball(G, center_node, Budget)

\* C1 witness: a node exactly at the budget is in the subgraph and a node
\* that can be reached, but only beyond the budget, is not.
C1_Witness ==
    /\ GenDone /\ PositiveTimes(G)
    /\ \E n \in sub_graph.nodes :
          /\ n # center_node
          /\ Budget > 0
          /\ ~WithinBudget(G, center_node, n, Rat(1, 1000), Budget)
    /\ \E m \in G.nodes \ sub_graph.nodes :
          \E w \in Walks(G, center_node) : WalkEnd(G, center_node, w) = m

\* C2 as stated, on networks whose times are all positive: every segment
\* (u, v) of the subgraph has shortestTime(source, u) + time(u, v) <= budget.
C2_SegmentsFitTheBudget ==
    (GenDone /\ PositiveTimes(G))
        => \A e \in Edges(sub_graph) :
             WithinBudget(G, center_node, e.u, e.time, Budget)

\* C2 amended: the subgraph is node-induced. Its segments are exactly the
\* segments of the network between two of its nodes, whatever their own
\* time; with positive times both ends of each lie within the budget.
C2_SubgraphIsNodeInduced ==
    GenDone =>
        /\ sub_graph.edges
             = SelectSeq(G.edges, LAMBDA e : e.u \in sub_graph.nodes
                                             /\ e.v \in sub_graph.nodes)
        /\ PositiveTimes(G) =>
             \A e \in Edges(sub_graph) :
                 /\ WithinBudget(G, center_node, e.u, RatInt(0), Budget)
                 /\ WithinBudget(G, center_node, e.v, RatInt(0), Budget)

\* C2 witness: the subgraph holds a segment between two included nodes
\* that does not fit the budget, and leaves out a segment that starts at an
\* included node and ends beyond the budget.
C2_Witness ==
    /\ GenDone /\ PositiveTimes(G)
    /\ \E e \in Edges(sub_graph) :
          ~WithinBudget(G, center_node, e.u, e.time, Budget)
    /\ \E e \in Edges(G) : e.u \in sub_graph.nodes /\ e.v \notin sub_graph.nodes

NoOutgoing(g, n) == \A e \in Edges(g) : e.u # n

\* C3 as stated, on networks whose times are all positive: with budget 0,
\* or a source without outgoing segments, the subgraph is the source alone
\* and has no segment.
C3_SingletonWithoutSegments ==
    (GenDone /\ PositiveTimes(G) /\ (Budget = 0 \/ NoOutgoing(G, center_node)))
        => sub_graph.nodes = {center_node} /\ sub_graph.edges = <<>>

\* C3 amended: with budget 0 and positive times, or with a source without
\* outgoing segments, the subgraph has the source as its only node and the
\* self-loops of the source as its only segments.
C3_SingletonWithSelfLoops ==
    (GenDone /\ ((Budget = 0 /\ PositiveTimes(G)) \/ NoOutgoing(G, center_node)))
        => /\ sub_graph.nodes = {center_node}
           /\ sub_graph.edges
                = SelectSeq(G.edges, LAMBDA e : e.u = center_node /\ e.v = center_node)

\* C3 witness: budget 0 at a source that has a self-loop and a segment to
\* another node; the subgraph keeps the self-loop.
C3_Witness ==
    /\ GenDone /\ PositiveTimes(G) /\ Budget = 0
    /\ \E e \in Edges(G) : e.u = center_node /\ e.v # center_node
    /\ \E e \in Edges(sub_graph) : e.u = center_node /\ e.v = center_node

\* C4: for the network and the source of the last generate_isochrone, the
\* node set grows with the budget: a smaller budget gives a subset of the
\* subgraph's nodes, a larger one a superset.
C4_MonotoneInBudget ==
    GenDone =>
        \A b \in Budgets :
            LET other == EgoGraph(G, center_node, b)
            IN  other.raised = "none" =>
                  /\ b <= Budget => other.graph.nodes \subseteq sub_graph.nodes
                  /\ b >= Budget => sub_graph.nodes \subseteq other.graph.nodes

\* C4 witness: a larger budget reaches strictly more nodes.
C4_Witness ==
    /\ GenDone
    /\ \E b \in Budgets :
          /\ b > Budget
          /\ EgoGraph(G, center_node, b).raised = "none"
          /\ sub_graph.nodes # EgoGraph(G, center_node, b).graph.nodes
          /\ Cardinality(sub_graph.nodes) > 1

\* C5: after the time pass every segment has a time, the time is above
\* zero, and it is length / (speed * 1000 / 60) for the resolved speed.
C5_TimesArePositive ==
    (last.op = "load" /\ last.raised = "none")
        => \A e \in Edges(G) :
             /\ e.has_time
             /\ e.time.num > 0
             /\ LET speed == ResolveSpeed(e.maxspeed)
                IN  e.time = Rat(e.length * speed.den * 6000, speed.num)

BadLength(e) == ~e.has_length \/ e.length <= 0

\* C6: loading a file with a segment whose length is missing or not above
\* zero raises, and no load returns a network with a segment whose time is
\* unset, zero or negative.
C6_BadLengthIsRejected ==
    /\ (last.op = "load" /\ ~last.hit /\ \E e \in Edges(G) : BadLength(e))
          => last.raised # "none"
    /\ (last.op = "load" /\ last.raised = "none")
          => \A e \in Edges(G) : e.has_time /\ e.time.num > 0

(***************************************************************************)
(* Claims about route extraction, under Spec.                              *)
(***************************************************************************)
Position(n) == <<NodeY(n), NodeX(n)>>

\* The nodes a walk from s visits, in order.
WalkRoute(g, s, w) == <<s>> \o [i \in 1..Len(w) |-> g.edges[w[i]].v]

\* n is a node of g at the least distance from the position of vertex c.
IsNearest(g, n, c) ==
    /\ n \in g.nodes
    /\ \A m \in g.nodes : Dist2(n, NodeX(c), NodeY(c)) <= Dist2(m, NodeX(c), NodeY(c))

\* w is a walk from s of least total length among the walks to its end.
LeastLength(g, s, w) ==
    \A w2 \in Walks(g, s) :
        WalkEnd(g, s, w2) = WalkEnd(g, s, w) => WalkLength(g, w) <= WalkLength(g, w2)

\* The exterior coordinates of every part of the stored polygon.
Vertices == Concat(polys.parts)

RoutesDone == last.op = "generate_shortest_paths" /\ last.raised = "none"

\* C9: when generate_shortest_paths returns, it returns one route for every
\* vertex of every part of the stored polygon; each route is a path of
\* least total length in the stored subgraph from the source node to a
\* subgraph node nearest to the vertex, starts at the source's position and
\* ends at that node's position.
C9_RoutesAreShortestByLength ==
    RoutesDone =>
        /\ Len(last.routes) = Len(Vertices)
        /\ \A i \in 1..Len(Vertices) :
              LET route == last.routes[i]
              IN  /\ route[1] = Position(center_node)
                  /\ \E w \in Walks(sub_graph, center_node) :
                        /\ route = [k \in 1..(Len(w) + 1) |->
                                       Position(WalkRoute(sub_graph, center_node, w)[k])]
                        /\ IsNearest(sub_graph, WalkEnd(sub_graph, center_node, w),
                                     Vertices[i])
                        /\ route[Len(route)]
                             = Position(WalkEnd(sub_graph, center_node, w))
                        /\ LeastLength(sub_graph, center_node, w)

\* C9 witness: routes returned for a polygon of two parts, one of them a
\* route of two segments that is shorter in length and longer in time than
\* another path to the same node.
C9_Witness ==
    /\ RoutesDone
    /\ Len(polys.parts) = 2
    /\ \E i \in 1..Len(last.routes) :
          /\ Len(last.routes[i]) = 3
          /\ \E w \in Walks(sub_graph, center_node) :
                /\ Position(WalkEnd(sub_graph, center_node, w))
                     = last.routes[i][3]
                /\ Len(w) = 1
                /\ WalkLength(sub_graph, w) > 1500
                /\ RatLess(WalkTime(sub_graph, w), RatInt(3))

\* A walk of g from s ends at n.
Connected(g, s, n) == \E w \in Walks(g, s) : WalkEnd(g, s, w) = n

\* The vertices of the stored polygon whose nearest node has a path from
\* the source node.
Routable ==
    {i \in 1..Len(Vertices) :
        Connected(sub_graph, center_node,
                  NearestNode(sub_graph, NodeX(Vertices[i]), NodeY(Vertices[i])))}

\* C10: when the node chosen for some vertex of the stored polygon has no
\* path from the source node, generate_shortest_paths still returns, with
\* the routes of all the vertices that have one.
C10_MissingRouteDoesNotAbort ==
    (/\ last.op = "generate_shortest_paths"
     /\ polys.type \in {"Polygon", "MultiPolygon"}
     /\ center_node \in sub_graph.nodes
     /\ Routable # 1..Len(Vertices))
        => /\ last.raised = "none"
           /\ Len(last.routes) = Cardinality(Routable)

\* C18: every node of the subgraph a call of generate_isochrone stores has
\* a directed path from the source node inside that subgraph, and a call
\* of generate_shortest_paths that follows it on the polygon and subgraph
\* of that call does not fail for lack of a path.
C18_SubgraphIsConnectedFromSource ==
    [][/\ GenDone' =>
            \A n \in sub_graph'.nodes : Connected(sub_graph', center_node', n)
       /\ (GenDone /\ last'.op = "generate_shortest_paths")
            => last'.raised \notin {"NetworkXNoPath", "NodeNotFound"}]_vars

\* C18 witness: routes were returned on a subgraph of three nodes or more,
\* all of them connected from the source, one of them by a route of two
\* segments.
C18_Witness ==
    /\ RoutesDone
    /\ Cardinality(sub_graph.nodes) >= 3
    /\ \A n \in sub_graph.nodes : Connected(sub_graph, center_node, n)
    /\ \E i \in 1..Len(last.routes) : Len(last.routes[i]) >= 3

(***************************************************************************)
(* Claims about the export of the network, under Spec.                     *)
(***************************************************************************)
ExportDone == last.op = "graph_to_geojson" /\ last.raised = "none"

FeaturesOfType(type) == SelectSeq(last.features, LAMBDA f : f.type = type)

\* C11: the feature collection graph_to_geojson returns holds exactly one
\* LineString feature for every segment of the subgraph, with or without a
\* geometry of its own, and exactly one Point feature for every node of the
\* subgraph that has a position.
C11_ExportIsComplete ==
    ExportDone =>
        /\ Len(FeaturesOfType("LineString")) = Len(sub_graph.edges)
        /\ \A e \in Edges(sub_graph) :
              \E i \in 1..Len(last.features) :
                  /\ last.features[i].type = "LineString"
                  /\ last.features[i].from = e.u
                  /\ last.features[i].to = e.v
        /\ Len(FeaturesOfType("Point"))
             = Cardinality({n \in sub_graph.nodes : HasPosition(n)})

(***************************************************************************)
(* Claims about the stored result and the memo tables, under Spec.         *)
(***************************************************************************)
\* The hulls alphashape can return for points P at alpha, given what it has
\* returned so far.
HullsFor(P, alpha) ==
    {h \in AlphaShapes(P) : Returns(<<P, alpha>>, h)}

\* The polygons generate_isochrone(lat, lon, t) can return when it runs
\* alone on network g: none when it raises.
AloneResults(g, lat, lon, t) ==
    LET ego == EgoGraph(g, NearestNode(g, lon, lat), t)
        P == ego.graph.nodes
    IN  IF ego.raised # "none" THEN {}
        ELSE {f \in HullsFor(P, Alpha) : f.type # "MultiPolygon"}
             \cup (IF \E f \in HullsFor(P, Alpha) : f.type = "MultiPolygon"
                   THEN HullsFor(P, RetryAlpha) ELSE {})

\* An isochrone has been generated and its result is stored.
Stored == sub_graph.loaded /\ polys.type # "str"

\* C12: generating an isochrone never replaces or alters the stored result
\* of an isochrone generated before under other arguments (the generator
\* has no names: an isochrone is known by its arguments), so that routes
\* and exports of the earlier isochrone still use its source node, subgraph
\* and polygon.
C12_EarlierResultIsKept ==
    [][(/\ Stored
        /\ last'.op = "generate_isochrone"
        /\ last'.args \notin DOMAIN iso_cache)
          => (/\ center_node' = center_node
              /\ sub_graph' = sub_graph
              /\ polys' = polys)]_vars

\* C14: whatever was loaded and generated before, a call of
\* generate_isochrone that returns, returns a polygon computed on the
\* network the generator holds now: after a reload no polygon memoized for
\* the previous network is returned.
C14_ResultIsOfTheCurrentNetwork ==
    (last.op = "generate_isochrone" /\ last.raised = "none")
        => last.polys \in AloneResults(G, last.args[1], last.args[2], last.args[3])

\* C15: a call of generate_isochrone whose subgraph has fewer than three
\* nodes returns and stores no geometry that is not a polygon.
C15_NoHullForFewPoints ==
    (GenDone /\ Cardinality(sub_graph.nodes) < 3)
        => /\ last.polys.type \in {"Polygon", "MultiPolygon"}
           /\ polys.type \in {"Polygon", "MultiPolygon"}

\* The hull alphashape returned first in the last call of generate_isochrone.
FirstOfLast == hulls[<<sub_graph.nodes, Alpha>>]

C17_StoredResultIsOfTheLastCall ==
    (last.op = "generate_isochrone" /\ last.raised = "none")
        => /\ last.polys = polys
           /\ center_node = NearestNode(G, last.args[2], last.args[1])
           /\ sub_graph = EgoGraph(G, center_node, last.args[3]).graph

(***************************************************************************)
(* Claims about two concurrent callers, under SpecThreads.                 *)
(***************************************************************************)
\* C13: under every interleaving of two callers of generate_isochrone with
\* different arguments on one loaded network, each call that returns,
\* returns a polygon the same call returns when it runs alone.
C13_ConcurrentCallsReturnTheirOwn ==
    \A t \in DOMAIN threads :
        threads[t].pc = "done"
            => threads[t].ret \in AloneResults(G, threads[t].args[1],
                                               threads[t].args[2], threads[t].args[3])

(***************************************************************************)
(* What the specification says of the speed of a segment, for the          *)
(* annotations it describes: a string "<number> [unit]" with a positive    *)
(* number, or a list of such strings.                                      *)
(***************************************************************************)
RECURSIVE Pow10(_)
Pow10(k) == IF k = 0 THEN 1 ELSE 10 * Pow10(k - 1)

AllDigits(s) == s # <<>> /\ \A i \in 1..Len(s) : s[i] \in Digits

\* The place of the decimal point in tok, 0 when it has none.
PointAt(tok) ==
    IF \E i \in 1..Len(tok) : tok[i] = "."
    THEN CHOOSE i \in 1..Len(tok) : tok[i] = "." /\ \A j \in 1..(i - 1) : tok[j] # "."
    ELSE 0

IsNumber(tok) ==
    IF PointAt(tok) = 0 THEN AllDigits(tok)
    ELSE /\ AllDigits(SubSeq(tok, 1, PointAt(tok) - 1))
         /\ AllDigits(SubSeq(tok, PointAt(tok) + 1, Len(tok)))
         /\ Len(tok) - PointAt(tok) <= 5

\* The number a token writes, in speed units.
NumberValue(tok) ==
    IF PointAt(tok) = 0 THEN DigitsValue(tok) * KmhUnit
    ELSE LET whole == SubSeq(tok, 1, PointAt(tok) - 1)
             frac == SubSeq(tok, PointAt(tok) + 1, Len(tok))
         IN  DigitsValue(whole) * KmhUnit
               + DigitsValue(frac) * (KmhUnit \div Pow10(Len(frac)))

\* "<number> [unit]" with a number above zero
Described(s) ==
    LET toks == PySplit(s)
    IN  /\ Len(toks) \in {1, 2}
        /\ IsNumber(toks[1])
        /\ NumberValue(toks[1]) > 0

DescribedSpeed(s) ==
    LET toks == PySplit(s)
        number == NumberValue(toks[1])
    IN  IF Len(toks) = 2 /\ toks[2] = <<"m", "p", "h">>
        THEN (number \div KmhUnit) * MphConversion
               + ((number % KmhUnit) * MphConversion) \div KmhUnit
        ELSE number

RECURSIVE SumDescribed(_)
SumDescribed(l) ==
    IF l = <<>> THEN 0 ELSE DescribedSpeed(Head(l)) + SumDescribed(Tail(l))

DescribedAnnotation(a) ==
    \/ a.kind = "absent"
    \/ a.kind = "str" /\ Described(a.s)
    \/ a.kind = "list" /\ a.l # <<>> /\ \A i \in 1..Len(a.l) : Described(a.l[i])

DescribedResult(a) ==
    IF a.kind = "absent" THEN RatInt(DEFAULT_SPEED)
    ELSE IF a.kind = "str" THEN RatInt(DescribedSpeed(a.s))
    ELSE Rat(SumDescribed(a.l), Len(a.l))

(***************************************************************************)
(* Claims about the speed of a segment, under SpecSpeed.                   *)
(***************************************************************************)
\* C7: the resolved speed of every annotation (absent, any string, a list of
\* strings) is above zero. The code returns the number it parsed whenever it
\* is not zero, so "-30" resolves to -30 km/h.
C7_ResolvedSpeedIsPositive == res.done => res.speed.num > 0

\* C8: for an absent annotation the speed is the default; for a string
\* "<number> [unit]" it is the number, times 1.60934 when the unit token is
\* "mph"; for a list it is the mean of its elements' speeds. The code tests
\* "mph" as a substring of the whole string ("50 kmph" is multiplied) and
\* parses the number with int() ("30.5" falls back to the default).
C8_ResolvedSpeedIsAsDescribed ==
    (res.done /\ DescribedAnnotation(ann))
        => Rat(res.speed.num, res.speed.den) = DescribedResult(ann)

====
